---- MODULE Spec2Model ----
(***************************************************************************)
(* Subsection grades (lms/djangoapps/grades/subsection_grade.py) and the   *)
(* course-overview signal handlers (course_overviews/signals.py).          *)
(*                                                                         *)
(* Numbers stand for the floats of the code: every score of the model is   *)
(* an integer and every weighted score divides exactly, so sums and        *)
(* comparisons agree with the float arithmetic.  percent_graded, the one   *)
(* true division, yields a reduced fraction <<numerator, denominator>>.    *)
(***************************************************************************)
EXTENDS Integers, Sequences, FiniteSets, TLC

VARIABLES
    blocks,              \* block key -> the block's fields (fixed per course run)
    structure,           \* the subsection's scorable blocks the user can see, in post-order
    submissions_scores,  \* dict: block key -> score of the submissions API
    csm_scores,          \* dict: block key -> score of the courseware student module table
    grade,               \* the subsection grade object in hand
    model,               \* the PersistentSubsectionGrade row of (student, subsection)
    bulk_created,        \* the last bulk_create_models: its list and the rows it created
    nevents,             \* number of learner/course events so far
    overviews,           \* CourseOverview table: course key -> snapshot
    modulestore,         \* course key -> the course as authored
    about_index,         \* course keys in the course-about search index
    emitted,             \* signals sent by the last handler, in order
    handled              \* the last signal handled

vars == <<blocks, structure, submissions_scores, csm_scores, grade, model,
          bulk_created, nevents, overviews, modulestore, about_index, emitted, handled>>

grade_vars == <<blocks, structure, submissions_scores, csm_scores, grade, model,
                bulk_created, nevents>>

overview_vars == <<overviews, modulestore, about_index, emitted, handled>>

-----------------------------------------------------------------------------
(* Bounds *)

\* learner/course events (attempts, submissions, resets, access changes) per run
MaxEvents == 2
\* longest subsection_grades list given to bulk_create_models
MaxBulk == 2
\* course start dates are 1..MaxStart
MaxStart == 2

-----------------------------------------------------------------------------
(* Python values *)

\* None where a number is expected
None == -1
\* None where an object is expected
NoneObj == [none |-> TRUE]

Min(S) == CHOOSE x \in S : \A y \in S : x <= y

RECURSIVE Gcd(_, _)
Gcd(a, b) == IF b = 0 THEN a ELSE Gcd(b, a % b)

\* the outcome of a / 0
ZeroDivisionError == <<1, 0>>

\* a / b on non-negative floats, as a reduced fraction
TrueDiv(a, b) ==
    IF b = 0 THEN ZeroDivisionError
    ELSE <<a \div Gcd(a, b), b \div Gcd(a, b)>>

\* the float 0.0
Zero == <<0, 1>>

\* OrderedDict: a sequence of <<key, value>> in insertion order
OD_Keys(od) == [i \in 1..Len(od) |-> od[i][1]]

OD_Values(od) == [i \in 1..Len(od) |-> od[i][2]]

OD_Has(od, k) == \E i \in 1..Len(od) : od[i][1] = k

\* od[k] = v: a new key goes last, a known key keeps its place
OD_Set(od, k, v) ==
    IF OD_Has(od, k)
    THEN [i \in 1..Len(od) |-> IF od[i][1] = k THEN <<k, v>> ELSE od[i]]
    ELSE Append(od, <<k, v>>)

Range(s) == {s[i] : i \in 1..Len(s)}

\* dict: a function on the keys it holds
EmptyDict == [k \in {} |-> NoneObj]

DictSet(d, k, v) == [x \in DOMAIN d \cup {k} |-> IF x = k THEN v ELSE d[x]]

DictDel(d, k) == [x \in DOMAIN d \ {k} |-> d[x]]

\* s without the element at position i; s with x put at position i
RemoveAt(s, i) == SubSeq(s, 1, i - 1) \o SubSeq(s, i + 1, Len(s))

InsertAt(s, i, x) == SubSeq(s, 1, i - 1) \o <<x>> \o SubSeq(s, i, Len(s))

\* the sequences over S of length at most n
RECURSIVE SeqsUpTo(_, _)
SeqsUpTo(S, n) ==
    IF n = 0 THEN {<<>>}
    ELSE SeqsUpTo(S, n - 1) \cup {Append(q, x) : q \in SeqsUpTo(S, n - 1), x \in S}

-----------------------------------------------------------------------------
(* The course: one subsection, its blocks, one student *)

Blocks == {"p1", "p2"}

student == [id |-> "u1"]

subsection == [location |-> "seq1", course_version |-> "v1", subtree_edited_on |-> 1]

\* the fields of a block that scoring reads
GradedProblem == [has_score |-> TRUE, graded |-> TRUE, weight |-> None, max_score |-> 1]

\* a graded problem, a weighted one, a practice problem, a problem worth nothing,
\* a scorable block without max_score, a block that is not scored
BlockKinds ==
    { GradedProblem,
      [has_score |-> TRUE,  graded |-> TRUE,  weight |-> 2,    max_score |-> 1],
      [has_score |-> TRUE,  graded |-> FALSE, weight |-> None, max_score |-> 1],
      [has_score |-> TRUE,  graded |-> TRUE,  weight |-> None, max_score |-> 0],
      [has_score |-> TRUE,  graded |-> TRUE,  weight |-> None, max_score |-> None],
      [has_score |-> FALSE, graded |-> FALSE, weight |-> None, max_score |-> None] }

\* the courses of the model: a graded problem and a block of any kind
BlockConfigs == {f \in [Blocks -> BlockKinds] : f["p1"] = GradedProblem}

\* course_structure[block_key] raises KeyError
KeyError(course_structure, block_key) == block_key \notin Range(course_structure)

\* course_structure.post_order_traversal(filter_func=possibly_scored, start_node=location)
post_order_traversal(course_structure, start_node) == course_structure

-----------------------------------------------------------------------------
(* lms/djangoapps/grades/scores.py and xmodule/graders.py *)

ProblemScore(raw_earned, raw_possible, weighted_earned, weighted_possible, weight, graded, first_attempted) ==
    [raw_earned |-> raw_earned, raw_possible |-> raw_possible,
     earned |-> weighted_earned, possible |-> weighted_possible,
     weight |-> weight, graded |-> graded, first_attempted |-> first_attempted]

AggregatedScore(tw_earned, tw_possible, graded, first_attempted) ==
    [earned |-> tw_earned, possible |-> tw_possible, graded |-> graded,
     first_attempted |-> first_attempted]

\* ScoreBase.attempted
score_attempted(score) == score.first_attempted # None

weighted_score(raw_earned, raw_possible, weight) ==
    IF weight = None \/ raw_possible = 0
    THEN <<raw_earned, raw_possible>>
    ELSE <<(raw_earned * weight) \div raw_possible, weight>>

_get_weight_from_block(persisted_block, block) ==
    IF persisted_block # NoneObj THEN persisted_block.weight ELSE block.weight

_get_graded_from_block(persisted_block, block) ==
    IF persisted_block # NoneObj THEN persisted_block.graded ELSE block.graded

\* each source yields <<raw_earned, raw_possible, weighted_earned, weighted_possible,
\* first_attempted>>, or <<>> when it has nothing for the block
_get_score_from_submissions(subs, block_key) ==
    IF block_key \in DOMAIN subs
    THEN <<None, None, subs[block_key].points_earned, subs[block_key].points_possible,
           subs[block_key].created_at>>
    ELSE <<>>

_get_score_from_csm(csm, block_key, weight) ==
    IF block_key \in DOMAIN csm /\ csm[block_key].total # None
    THEN LET score == csm[block_key]
             raw_earned == IF score.correct # None THEN score.correct ELSE 0
             first == IF score.correct # None THEN score.created ELSE None
             w == weighted_score(raw_earned, score.total, weight)
         IN  <<raw_earned, score.total, w[1], w[2], first>>
    ELSE <<>>

_get_score_from_persisted_or_latest_block(persisted_block, block, weight) ==
    LET raw_possible == IF persisted_block # NoneObj THEN persisted_block.raw_possible
                        ELSE block.max_score
        w == IF raw_possible = None THEN <<None, None>>
             ELSE weighted_score(0, raw_possible, weight)
    IN  <<0, raw_possible, w[1], w[2], None>>

\* precedence: submissions API, then csm, then the persisted block, then the block
get_score(subs, csm, persisted_block, block_key, block) ==
    LET weight == _get_weight_from_block(persisted_block, block)
        s == _get_score_from_submissions(subs, block_key)
        c == _get_score_from_csm(csm, block_key, weight)
        t == IF s # <<>> THEN s
             ELSE IF c # <<>> THEN c
             ELSE _get_score_from_persisted_or_latest_block(persisted_block, block, weight)
    IN  IF t[4] = None \/ t[3] = None THEN NoneObj
        ELSE ProblemScore(t[1], t[2], t[3], t[4], weight,
                          IF t[4] > 0 THEN _get_graded_from_block(persisted_block, block)
                          ELSE FALSE,
                          t[5])

RECURSIVE float_sum(_)
float_sum(s) == IF s = <<>> THEN 0 ELSE Head(s) + float_sum(Tail(s))

earned_of(scores) == [i \in 1..Len(scores) |-> scores[i].earned]

possible_of(scores) == [i \in 1..Len(scores) |-> scores[i].possible]

graded_of(scores) == SelectSeq(scores, LAMBDA sc : sc.graded)

\* earliest first attempt across the scores, None when none was attempted
first_attempted_of(scores) ==
    LET ts == {scores[i].first_attempted : i \in 1..Len(scores)} \ {None}
    IN  IF ts = {} THEN None ELSE Min(ts)

\* <<all_total, graded_total>>
aggregate_scores(scores) ==
    << AggregatedScore(float_sum(earned_of(scores)), float_sum(possible_of(scores)),
                       FALSE, first_attempted_of(scores)),
       AggregatedScore(float_sum(earned_of(graded_of(scores))),
                       float_sum(possible_of(graded_of(scores))),
                       TRUE, first_attempted_of(graded_of(scores))) >>

-----------------------------------------------------------------------------
(* lms/djangoapps/grades/models.py *)

BlockRecord(locator, weight, raw_possible, graded) ==
    [locator |-> locator, weight |-> weight, raw_possible |-> raw_possible,
     graded |-> graded]

\* PersistentSubsectionGrade.update_or_create_grade(**params): the row of
\* (user_id, usage_key) takes the params; an override attached to the row stays
update_or_create_grade(row, params) ==
    [params EXCEPT !.override = IF row = NoneObj THEN NoneObj ELSE row.override]

\* PersistentSubsectionGrade.bulk_create_grades(params, user_id, course_key)
bulk_create_grades(params_list, user_id, course_key) == params_list

-----------------------------------------------------------------------------
(* subsection_grade.py: ZeroSubsectionGrade *)

\* mutant: the loop scores the blocks from the learner's csm scores
RECURSIVE zero_locations_from_csm(_, _, _)
zero_locations_from_csm(keys, blks, locations) ==
    IF keys = <<>> THEN locations
    ELSE LET block_key == Head(keys)
             block == blks[block_key]
             problem_score == get_score(EmptyDict, csm_scores, NoneObj, block_key, block)
         IN  zero_locations_from_csm(Tail(keys), blks,
                 IF block.has_score /\ problem_score # NoneObj
                 THEN OD_Set(locations, block_key, problem_score)
                 ELSE locations)

\* the loop of ZeroSubsectionGrade.problem_scores over the traversal
RECURSIVE zero_locations(_, _, _)
zero_locations(keys, blks, locations) ==
    IF keys = <<>> THEN locations
    ELSE LET block_key == Head(keys)
             block == blks[block_key]
             problem_score == get_score(EmptyDict, EmptyDict, NoneObj, block_key, block)
         IN  zero_locations(Tail(keys), blks,
                 IF block.has_score /\ problem_score # NoneObj
                 THEN OD_Set(locations, block_key, problem_score)
                 ELSE locations)

ZeroSubsectionGrade_problem_scores(course_structure, blks) ==
    zero_locations(post_order_traversal(course_structure, subsection.location), blks, <<>>)

\* a lazy attribute not yet computed is <<>>, a computed one is <<value>>
ZeroSubsectionGrade ==
    [kind |-> "zero", override |-> NoneObj, lazy_problem_scores |-> <<>>]

-----------------------------------------------------------------------------
(* subsection_grade.py: NonZeroSubsectionGrade *)

\* mutant: a block missing from the structure is scored all the same
compute_block_score_of_missing_block(block_key, course_structure, blks, subs, csm, persisted_block) ==
    IF blks[block_key].has_score
    THEN get_score(subs, csm, persisted_block, block_key, blks[block_key])
    ELSE NoneObj

_compute_block_score(block_key, course_structure, blks, subs, csm, persisted_block) ==
    IF KeyError(course_structure, block_key) THEN NoneObj
    ELSE IF blks[block_key].has_score
         THEN get_score(subs, csm, persisted_block, block_key, blks[block_key])
         ELSE NoneObj

-----------------------------------------------------------------------------
(* subsection_grade.py: ReadSubsectionGrade *)

ReadSubsectionGrade(m) ==
    [kind |-> "read",
     all_total |-> AggregatedScore(m.earned_all, m.possible_all, FALSE, m.first_attempted),
     graded_total |-> AggregatedScore(m.earned_graded, m.possible_graded, TRUE,
                                      m.first_attempted),
     override |-> m.override,
     model |-> m,
     lazy_problem_scores |-> <<>>]

\* the loop of ReadSubsectionGrade.problem_scores over model.visible_blocks.blocks
RECURSIVE read_problem_scores(_, _, _, _, _, _)
read_problem_scores(visible, course_structure, blks, subs, csm, problem_scores) ==
    IF visible = <<>> THEN problem_scores
    ELSE LET block == Head(visible)
             problem_score == _compute_block_score(block.locator, course_structure, blks,
                                                   subs, csm, block)
         IN  read_problem_scores(Tail(visible), course_structure, blks, subs, csm,
                 IF problem_score # NoneObj
                 THEN OD_Set(problem_scores, block.locator, problem_score)
                 ELSE problem_scores)

ReadSubsectionGrade_problem_scores(g, course_structure, blks, subs, csm) ==
    read_problem_scores(g.model.visible_blocks, course_structure, blks, subs, csm, <<>>)

-----------------------------------------------------------------------------
(* subsection_grade.py: CreateSubsectionGrade *)

\* the loop of CreateSubsectionGrade.__init__ over the traversal
RECURSIVE create_problem_scores(_, _, _, _, _, _)
create_problem_scores(keys, course_structure, blks, subs, csm, problem_scores) ==
    IF keys = <<>> THEN problem_scores
    ELSE LET block_key == Head(keys)
             problem_score == _compute_block_score(block_key, course_structure, blks,
                                                   subs, csm, NoneObj)
         IN  create_problem_scores(Tail(keys), course_structure, blks, subs, csm,
                 IF problem_score # NoneObj
                 THEN OD_Set(problem_scores, block_key, problem_score)
                 ELSE problem_scores)

\* mutant: both totals take the first aggregate
CreateSubsectionGrade_one_total(course_structure, blks, subs, csm) ==
    LET problem_scores == create_problem_scores(
            post_order_traversal(course_structure, subsection.location),
            course_structure, blks, subs, csm, <<>>)
        totals == aggregate_scores(OD_Values(problem_scores))
    IN  [kind |-> "create", all_total |-> totals[1], graded_total |-> totals[1],
         override |-> NoneObj, problem_scores |-> problem_scores]

CreateSubsectionGrade(course_structure, blks, subs, csm) ==
    LET problem_scores == create_problem_scores(
            post_order_traversal(course_structure, subsection.location),
            course_structure, blks, subs, csm, <<>>)
        totals == aggregate_scores(OD_Values(problem_scores))
    IN  [kind |-> "create", all_total |-> totals[1], graded_total |-> totals[2],
         override |-> NoneObj, problem_scores |-> problem_scores]

\* mutant: the attempt is looked up in the graded total
should_persist_per_attempted_graded(g, score_deleted) ==
    g.graded_total.first_attempted # None \/ score_deleted

_should_persist_per_attempted(g, score_deleted) ==
    g.all_total.first_attempted # None \/ score_deleted

_get_visible_blocks(g) ==
    [i \in 1..Len(g.problem_scores) |->
        BlockRecord(g.problem_scores[i][1], g.problem_scores[i][2].weight,
                    g.problem_scores[i][2].raw_possible, g.problem_scores[i][2].graded)]

\* mutant: earned_graded takes the all_total
persisted_model_params_earned_all_twice(g, stud) ==
    [user_id |-> stud.id,
     usage_key |-> subsection.location,
     course_version |-> subsection.course_version,
     subtree_edited_timestamp |-> subsection.subtree_edited_on,
     earned_all |-> g.all_total.earned,
     possible_all |-> g.all_total.possible,
     earned_graded |-> g.all_total.earned,
     possible_graded |-> g.graded_total.possible,
     visible_blocks |-> _get_visible_blocks(g),
     first_attempted |-> g.all_total.first_attempted,
     override |-> NoneObj]

_persisted_model_params(g, stud) ==
    [user_id |-> stud.id,
     usage_key |-> subsection.location,
     course_version |-> subsection.course_version,
     subtree_edited_timestamp |-> subsection.subtree_edited_on,
     earned_all |-> g.all_total.earned,
     possible_all |-> g.all_total.possible,
     earned_graded |-> g.graded_total.earned,
     possible_graded |-> g.graded_total.possible,
     visible_blocks |-> _get_visible_blocks(g),
     first_attempted |-> g.all_total.first_attempted,
     override |-> NoneObj]

\* the list comprehension of bulk_create_models
RECURSIVE bulk_params(_, _)
bulk_params(subsection_grades, stud) ==
    IF subsection_grades = <<>> THEN <<>>
    ELSE LET subsection_grade == Head(subsection_grades)
             rest == bulk_params(Tail(subsection_grades), stud)
         IN  IF subsection_grade # NoneObj
                /\ _should_persist_per_attempted(subsection_grade, FALSE)
             THEN <<_persisted_model_params(subsection_grade, stud)>> \o rest
             ELSE rest

-----------------------------------------------------------------------------
(* The properties of a grade object, read in the current state.  Reading a  *)
(* lazy attribute that is not yet computed computes it from what the grade  *)
(* factory holds now.                                                       *)

problem_scores(g) ==
    CASE g.kind = "create" -> g.problem_scores
      [] g.kind = "zero" ->
            IF g.lazy_problem_scores # <<>> THEN g.lazy_problem_scores[1]
            ELSE ZeroSubsectionGrade_problem_scores(structure, blocks)
      [] g.kind = "read" ->
            IF g.lazy_problem_scores # <<>> THEN g.lazy_problem_scores[1]
            ELSE ReadSubsectionGrade_problem_scores(g, structure, blocks,
                                                    submissions_scores, csm_scores)

all_total(g) ==
    IF g.kind = "zero" THEN aggregate_scores(OD_Values(problem_scores(g)))[1]
    ELSE g.all_total

graded_total(g) ==
    IF g.kind = "zero" THEN aggregate_scores(OD_Values(problem_scores(g)))[2]
    ELSE g.graded_total

\* SubsectionGradeBase.attempted
attempted(g) == score_attempted(all_total(g))

ZeroSubsectionGrade_attempted_graded(g) == FALSE

NonZeroSubsectionGrade_attempted_graded(g) == g.graded_total.first_attempted # None

attempted_graded(g) ==
    IF g.kind = "zero" THEN ZeroSubsectionGrade_attempted_graded(g)
    ELSE NonZeroSubsectionGrade_attempted_graded(g)

ZeroSubsectionGrade_percent_graded(g) == Zero

\* mutant: the guard lets possible = 0 through
percent_graded_dividing_by_zero(g) ==
    IF g.graded_total.possible >= 0
    THEN TrueDiv(g.graded_total.earned, g.graded_total.possible)
    ELSE Zero

NonZeroSubsectionGrade_percent_graded(g) ==
    IF g.graded_total.possible > 0
    THEN TrueDiv(g.graded_total.earned, g.graded_total.possible)
    ELSE Zero

percent_graded(g) ==
    IF g.kind = "zero" THEN ZeroSubsectionGrade_percent_graded(g)
    ELSE NonZeroSubsectionGrade_percent_graded(g)

-----------------------------------------------------------------------------
(* Initial state *)

InitGrades ==
    /\ blocks \in BlockConfigs
    /\ structure = <<"p1", "p2">>
    /\ submissions_scores = EmptyDict
    /\ csm_scores = EmptyDict
    /\ grade = NoneObj
    /\ model = NoneObj
    /\ bulk_created = [subsection_grades |-> <<>>, created |-> <<>>]
    /\ nevents = 0

-----------------------------------------------------------------------------
(* Learner and course events *)

\* the time of the next event
now == nevents + 1

\* the learner opens (correct = None) or answers a problem: the csm row keeps its
\* creation time
Attempt(b, correct) ==
    /\ nevents < MaxEvents
    /\ blocks[b].has_score /\ blocks[b].max_score # None
    /\ correct \in {None} \cup 0..blocks[b].max_score
    /\ csm_scores' = DictSet(csm_scores, b,
           [correct |-> correct, total |-> blocks[b].max_score,
            created |-> IF b \in DOMAIN csm_scores THEN csm_scores[b].created ELSE now])
    /\ nevents' = nevents + 1
    /\ UNCHANGED <<blocks, structure, submissions_scores, grade, model, bulk_created>>
    /\ UNCHANGED overview_vars

\* a score arrives through the submissions API (points_possible > 0 by its contract)
Submit(b, points_earned) ==
    /\ nevents < MaxEvents
    /\ blocks[b].has_score
    /\ submissions_scores' = DictSet(submissions_scores, b,
           [points_earned |-> points_earned, points_possible |-> 1, created_at |-> now])
    /\ nevents' = nevents + 1
    /\ UNCHANGED <<blocks, structure, csm_scores, grade, model, bulk_created>>
    /\ UNCHANGED overview_vars

\* an instructor resets the learner's state of a problem
DeleteScore(b) ==
    /\ nevents < MaxEvents
    /\ b \in DOMAIN csm_scores \cup DOMAIN submissions_scores
    /\ csm_scores' = DictDel(csm_scores, b)
    /\ submissions_scores' = DictDel(submissions_scores, b)
    /\ nevents' = nevents + 1
    /\ UNCHANGED <<blocks, structure, grade, model, bulk_created>>
    /\ UNCHANGED overview_vars

\* the learner loses access to a block: it leaves the structure they see
LoseAccess(i) ==
    /\ nevents < MaxEvents
    /\ i \in 1..Len(structure)
    /\ structure' = RemoveAt(structure, i)
    /\ nevents' = nevents + 1
    /\ UNCHANGED <<blocks, submissions_scores, csm_scores, grade, model, bulk_created>>
    /\ UNCHANGED overview_vars

\* the learner gains access to a block, at any place of the subsection
GainAccess(b, i) ==
    /\ nevents < MaxEvents
    /\ b \notin Range(structure)
    /\ i \in 1..(Len(structure) + 1)
    /\ structure' = InsertAt(structure, i, b)
    /\ nevents' = nevents + 1
    /\ UNCHANGED <<blocks, submissions_scores, csm_scores, grade, model, bulk_created>>
    /\ UNCHANGED overview_vars

\* an instructor overrides the persisted grade
CreateOverride ==
    /\ nevents < MaxEvents
    /\ model # NoneObj
    /\ model.override = NoneObj
    /\ model' = [model EXCEPT !.override = [earned_graded_override |-> 0]]
    /\ nevents' = nevents + 1
    /\ UNCHANGED <<blocks, structure, submissions_scores, csm_scores, grade, bulk_created>>
    /\ UNCHANGED overview_vars

-----------------------------------------------------------------------------
(* Grade operations *)

NewZeroSubsectionGrade ==
    /\ grade' = ZeroSubsectionGrade
    /\ UNCHANGED <<blocks, structure, submissions_scores, csm_scores, model, bulk_created,
                   nevents>>
    /\ UNCHANGED overview_vars

NewCreateSubsectionGrade ==
    /\ grade' = CreateSubsectionGrade(structure, blocks, submissions_scores, csm_scores)
    /\ UNCHANGED <<blocks, structure, submissions_scores, csm_scores, model, bulk_created,
                   nevents>>
    /\ UNCHANGED overview_vars

NewReadSubsectionGrade ==
    /\ model # NoneObj
    /\ grade' = ReadSubsectionGrade(model)
    /\ UNCHANGED <<blocks, structure, submissions_scores, csm_scores, model, bulk_created,
                   nevents>>
    /\ UNCHANGED overview_vars

\* mutant: reading problem_scores recomputes the totals of a read grade from them
ReadProblemScores_recomputing_totals ==
    /\ grade # NoneObj
    /\ grade.kind \in {"zero", "read"}
    /\ grade.lazy_problem_scores = <<>>
    /\ grade' =
           IF grade.kind = "zero"
           THEN [grade EXCEPT !.lazy_problem_scores = <<problem_scores(grade)>>]
           ELSE [grade EXCEPT
                    !.lazy_problem_scores = <<problem_scores(grade)>>,
                    !.all_total = aggregate_scores(OD_Values(problem_scores(grade)))[1],
                    !.graded_total = aggregate_scores(OD_Values(problem_scores(grade)))[2]]
    /\ UNCHANGED <<blocks, structure, submissions_scores, csm_scores, model, bulk_created,
                   nevents>>
    /\ UNCHANGED overview_vars

\* first read of the lazy problem_scores of a zero or read grade
ReadProblemScores ==
    /\ grade # NoneObj
    /\ grade.kind \in {"zero", "read"}
    /\ grade.lazy_problem_scores = <<>>
    /\ grade' = [grade EXCEPT !.lazy_problem_scores = <<problem_scores(grade)>>]
    /\ UNCHANGED <<blocks, structure, submissions_scores, csm_scores, model, bulk_created,
                   nevents>>
    /\ UNCHANGED overview_vars

update_or_create_model(score_deleted) ==
    /\ grade # NoneObj
    /\ grade.kind = "create"
    /\ model' = IF _should_persist_per_attempted(grade, score_deleted)
                THEN update_or_create_grade(model, _persisted_model_params(grade, student))
                ELSE model
    /\ UNCHANGED <<blocks, structure, submissions_scores, csm_scores, grade, bulk_created,
                   nevents>>
    /\ UNCHANGED overview_vars

\* the grade computed now from the structure and the score sources
FreshGrade == CreateSubsectionGrade(structure, blocks, submissions_scores, csm_scores)

\* what a caller may put in the list of bulk_create_models: nothing, the grade in
\* hand, a grade computed now
BulkEntries ==
    {NoneObj, FreshGrade} \cup (IF grade # NoneObj /\ grade.kind = "create" THEN {grade} ELSE {})

bulk_create_models(subsection_grades) ==
    /\ bulk_created' =
           [subsection_grades |-> subsection_grades,
            created |-> bulk_create_grades(bulk_params(subsection_grades, student),
                                           student.id, "course")]
    /\ UNCHANGED <<blocks, structure, submissions_scores, csm_scores, grade, model, nevents>>
    /\ UNCHANGED overview_vars

GradeNext ==
    \/ \E b \in Blocks, correct \in {None} \cup 0..1 : Attempt(b, correct)
    \/ \E b \in Blocks, e \in 0..1 : Submit(b, e)
    \/ \E b \in Blocks : DeleteScore(b)
    \/ \E i \in 1..Cardinality(Blocks) : LoseAccess(i)
    \/ \E b \in Blocks, i \in 1..Cardinality(Blocks) : GainAccess(b, i)
    \/ CreateOverride
    \/ NewZeroSubsectionGrade
    \/ NewCreateSubsectionGrade
    \/ NewReadSubsectionGrade
    \/ ReadProblemScores
    \/ \E score_deleted \in BOOLEAN : update_or_create_model(score_deleted)

-----------------------------------------------------------------------------
(* course_overviews: the CourseOverview table, the signals, the handlers *)

Courses == {"c1", "c2"}

StartDates == 1..MaxStart

\* CourseOverview.get_from_ids_if_exists([course_key]).get(course_key)
get_from_ids_if_exists(table, course_key) ==
    IF course_key \in DOMAIN table THEN table[course_key] ELSE NoneObj

\* the snapshot CourseOverview.load_from_module_store builds from the course and saves
CourseOverview(course_key, course) ==
    [id |-> course_key, start |-> course.start, self_paced |-> course.self_paced]

_check_for_course_date_changes(previous_course_overview, updated_course_overview) ==
    IF previous_course_overview.start # updated_course_overview.start
    THEN << [signal |-> "COURSE_START_DATE_CHANGED",
             updated_course_overview |-> updated_course_overview,
             previous_start_date |-> previous_course_overview.start] >>
    ELSE <<>>

_check_for_pacing_changes(previous_course_overview, updated_course_overview) ==
    IF previous_course_overview.self_paced # updated_course_overview.self_paced
    THEN << [signal |-> "COURSE_PACING_CHANGED",
             updated_course_overview |-> updated_course_overview,
             previous_self_paced |-> previous_course_overview.self_paced] >>
    ELSE <<>>

_check_for_course_changes(previous_course_overview, updated_course_overview) ==
    IF previous_course_overview # NoneObj
    THEN _check_for_course_date_changes(previous_course_overview, updated_course_overview)
         \o _check_for_pacing_changes(previous_course_overview, updated_course_overview)
    ELSE <<>>

\* mutant: the cached snapshot is read after the rebuild
listen_for_course_publish_reading_late(course_key) ==
    LET updated_course_overview == CourseOverview(course_key, modulestore[course_key])
        previous_course_overview ==
            get_from_ids_if_exists(DictSet(overviews, course_key, updated_course_overview),
                                   course_key)
    IN  /\ overviews' = DictSet(overviews, course_key, updated_course_overview)
        /\ emitted' = _check_for_course_changes(previous_course_overview,
                                                updated_course_overview)
        /\ UNCHANGED about_index

\* receiver of SignalHandler.course_published
_listen_for_course_publish(course_key) ==
    LET previous_course_overview == get_from_ids_if_exists(overviews, course_key)
        updated_course_overview == CourseOverview(course_key, modulestore[course_key])
    IN  /\ overviews' = DictSet(overviews, course_key, updated_course_overview)
        /\ emitted' = _check_for_course_changes(previous_course_overview,
                                                updated_course_overview)
        /\ UNCHANGED about_index

\* mutant: the delete is not filtered by the course key
listen_for_course_delete_unfiltered(course_key) ==
    /\ overviews' = EmptyDict
    /\ about_index' = about_index \ {course_key}
    /\ emitted' = <<>>

\* receiver of SignalHandler.course_deleted
_listen_for_course_delete(course_key) ==
    /\ overviews' = DictDel(overviews, course_key)
    /\ about_index' = about_index \ {course_key}
    /\ emitted' = <<>>

\* Studio saves a course (new or edited) in the modulestore
edit_course(course_key, start, self_paced) ==
    /\ modulestore' = DictSet(modulestore, course_key,
                              [start |-> start, self_paced |-> self_paced])
    /\ handled' = [op |-> "edit_course", course_key |-> course_key]
    /\ UNCHANGED <<overviews, about_index, emitted>>
    /\ UNCHANGED grade_vars

\* the course-about indexer lists a published course
index_course_about(course_key) ==
    /\ course_key \in DOMAIN modulestore
    /\ about_index' = about_index \cup {course_key}
    /\ handled' = [op |-> "index_course_about", course_key |-> course_key]
    /\ UNCHANGED <<overviews, modulestore, emitted>>
    /\ UNCHANGED grade_vars

\* Studio publishes a course: the modulestore sends course_published
course_published(course_key) ==
    /\ course_key \in DOMAIN modulestore
    /\ _listen_for_course_publish(course_key)
    /\ handled' = [op |-> "course_published", course_key |-> course_key]
    /\ UNCHANGED modulestore
    /\ UNCHANGED grade_vars

\* Studio deletes a course: the modulestore drops it and sends course_deleted
course_deleted(course_key) ==
    /\ modulestore' = DictDel(modulestore, course_key)
    /\ _listen_for_course_delete(course_key)
    /\ handled' = [op |-> "course_deleted", course_key |-> course_key]
    /\ UNCHANGED grade_vars

OverviewNext ==
    \/ \E c \in Courses, start \in StartDates, self_paced \in BOOLEAN :
            edit_course(c, start, self_paced)
    \/ \E c \in Courses : index_course_about(c)
    \/ \E c \in Courses : course_published(c)
    \/ \E c \in Courses : course_deleted(c)

InitOverviews ==
    /\ overviews = EmptyDict
    /\ modulestore = EmptyDict
    /\ about_index = {}
    /\ emitted = <<>>
    /\ handled = NoneObj

Init == InitGrades /\ InitOverviews

\* the overview handlers run beside one course's grades
InitOverviewsOnly ==
    /\ Init
    /\ blocks = [b \in Blocks |-> GradedProblem]

Next == GradeNext

Spec == Init /\ [][Next]_vars

\* computing and persisting fresh grades, one by one and in bulk, in a course of a
\* graded and a practice problem
InitBulk ==
    /\ Init
    /\ blocks = [b \in Blocks |-> IF b = "p1" THEN GradedProblem
                                  ELSE [GradedProblem EXCEPT !.graded = FALSE]]

BulkNext ==
    \/ \E b \in Blocks, correct \in 0..1 : Attempt(b, correct)
    \/ NewCreateSubsectionGrade
    \/ \E score_deleted \in BOOLEAN : update_or_create_model(score_deleted)
    \/ \E subsection_grades \in SeqsUpTo(BulkEntries, MaxBulk) :
            bulk_create_models(subsection_grades)

SpecBulk == InitBulk /\ [][BulkNext]_vars

SpecOverviews == InitOverviewsOnly /\ [][OverviewNext]_vars

-----------------------------------------------------------------------------
(* Helpers of the properties *)

RECURSIVE Sum(_)
Sum(s) == IF s = <<>> THEN 0 ELSE s[1] + Sum(Tail(s))

\* the scores of a grade's problem_scores, all of them and the graded ones
ScoresOf(g) == OD_Values(problem_scores(g))

GradedScoresOf(g) == SelectSeq(ScoresOf(g), LAMBDA sc : sc.graded)

SumEarned(scores) == Sum([i \in 1..Len(scores) |-> scores[i].earned])

SumPossible(scores) == Sum([i \in 1..Len(scores) |-> scores[i].possible])

HasGrade == grade # NoneObj

-----------------------------------------------------------------------------
(* C1: for every subsection grade whose graded_total has earned >= 0 and    *)
(* possible >= 0, percent_graded is graded_total.earned /                   *)
(* graded_total.possible when possible > 0 and 0 otherwise, and never the   *)
(* outcome of a division by zero.                                           *)
C1_PercentGraded ==
    HasGrade =>
        LET gt == graded_total(grade)
            p == percent_graded(grade)
        IN  (gt.earned >= 0 /\ gt.possible >= 0) =>
                /\ p # ZeroDivisionError
                /\ p[2] > 0
                /\ gt.possible > 0 => p[1] * gt.possible = gt.earned * p[2]
                /\ gt.possible = 0 => p = Zero

\* a grade read from the table with half of the graded points earned
C1_Witness ==
    /\ HasGrade
    /\ grade.kind = "read"
    /\ graded_total(grade).earned = 1
    /\ graded_total(grade).possible = 2
    /\ percent_graded(grade) = <<1, 2>>

-----------------------------------------------------------------------------
(* C5 as claimed: for every subsection grade, all_total is the aggregate    *)
(* over all entries of problem_scores and graded_total the aggregate over   *)
(* the entries whose graded flag is set, hence graded_total <= all_total.   *)
C5_Original ==
    HasGrade =>
        /\ all_total(grade).earned = SumEarned(ScoresOf(grade))
        /\ all_total(grade).possible = SumPossible(ScoresOf(grade))
        /\ graded_total(grade).earned = SumEarned(GradedScoresOf(grade))
        /\ graded_total(grade).possible = SumPossible(GradedScoresOf(grade))
        /\ graded_total(grade).earned <= all_total(grade).earned
        /\ graded_total(grade).possible <= all_total(grade).possible

(* C5 as amended: the totals of a zero-value or freshly computed grade are  *)
(* the aggregates over its problem_scores (all entries, and the entries     *)
(* whose graded flag is set); the totals of a grade read from a persisted   *)
(* record are the persisted ones, whatever its problem_scores hold; for     *)
(* every grade graded_total.earned <= all_total.earned and                  *)
(* graded_total.possible <= all_total.possible.                             *)
C5_GradedWithinAll ==
    HasGrade =>
        /\ grade.kind \in {"zero", "create"} =>
            /\ all_total(grade).earned = SumEarned(ScoresOf(grade))
            /\ all_total(grade).possible = SumPossible(ScoresOf(grade))
            /\ graded_total(grade).earned = SumEarned(GradedScoresOf(grade))
            /\ graded_total(grade).possible = SumPossible(GradedScoresOf(grade))
        /\ grade.kind = "read" =>
            /\ all_total(grade).earned = grade.model.earned_all
            /\ all_total(grade).possible = grade.model.possible_all
            /\ graded_total(grade).earned = grade.model.earned_graded
            /\ graded_total(grade).possible = grade.model.possible_graded
        /\ graded_total(grade).earned <= all_total(grade).earned
        /\ graded_total(grade).possible <= all_total(grade).possible

\* a fresh grade over a graded and a practice problem, both answered correctly
C5_Witness ==
    /\ HasGrade
    /\ grade.kind = "create"
    /\ Len(grade.problem_scores) = 2
    /\ graded_total(grade).earned = 1
    /\ all_total(grade).earned = 2
    /\ graded_total(grade).possible < all_total(grade).possible

-----------------------------------------------------------------------------
(* C6 as claimed: for every subsection grade, attempted_graded tells       *)
(* whether the learner attempted a graded problem of the subsection: it is  *)
(* true exactly when a problem with the graded flag set has been attempted. *)
(* This holds for a grade read from a persisted record (taken while the     *)
(* record is up to date with the score sources), also when the only         *)
(* attempted problems are practice problems; it is false for a zero-value   *)
(* grade.                                                                   *)
AttemptedGradedProblem(od) ==
    \E i \in 1..Len(od) : od[i][2].graded /\ od[i][2].first_attempted # None

\* the persisted record m is the one FreshGrade would write
UpToDate(m) == [m EXCEPT !.override = NoneObj] = _persisted_model_params(FreshGrade, student)

C6_AttemptedGraded ==
    HasGrade =>
        /\ grade.kind = "create" =>
               attempted_graded(grade) = AttemptedGradedProblem(grade.problem_scores)
        /\ grade.kind = "zero" => ~attempted_graded(grade)
        /\ (grade.kind = "read" /\ UpToDate(grade.model)) =>
               attempted_graded(grade) = AttemptedGradedProblem(FreshGrade.problem_scores)

-----------------------------------------------------------------------------
(* C7: a zero-value grade records no attempt.  Its problem_scores hold, in  *)
(* traversal order, one entry per block of the structure that has has_score *)
(* set and gets a score from empty score sources; every entry is unattempted *)
(* with nothing earned; all_total and graded_total are the aggregates of    *)
(* the entries; attempted and attempted_graded are false; percent_graded    *)
(* is 0.                                                                    *)
ZeroScored(b) ==
    /\ blocks[b].has_score
    /\ get_score(EmptyDict, EmptyDict, NoneObj, b, blocks[b]) # NoneObj

C7_ZeroGrade ==
    (HasGrade /\ grade.kind = "zero") =>
        /\ grade.lazy_problem_scores = <<>> =>
               OD_Keys(problem_scores(grade)) = SelectSeq(structure, ZeroScored)
        /\ \A i \in 1..Len(ScoresOf(grade)) :
               /\ ScoresOf(grade)[i].first_attempted = None
               /\ ScoresOf(grade)[i].earned = 0
               /\ ZeroScored(OD_Keys(problem_scores(grade))[i])
        /\ all_total(grade).earned = 0
        /\ all_total(grade).possible = SumPossible(ScoresOf(grade))
        /\ graded_total(grade).earned = 0
        /\ graded_total(grade).possible = SumPossible(GradedScoresOf(grade))
        /\ all_total(grade).first_attempted = None
        /\ graded_total(grade).first_attempted = None
        /\ ~attempted(grade)
        /\ ~attempted_graded(grade)
        /\ percent_graded(grade) = Zero

\* a zero-value grade, its scores read, of a learner who has answered a problem
C7_Witness ==
    /\ HasGrade
    /\ grade.kind = "zero"
    /\ grade.lazy_problem_scores # <<>>
    /\ Len(problem_scores(grade)) = 1
    /\ graded_total(grade).possible > 0
    /\ \E b \in DOMAIN csm_scores : csm_scores[b].correct = 1

-----------------------------------------------------------------------------
(* C9: a freshly computed grade survives the round trip through the         *)
(* persisted record: a ReadSubsectionGrade built from a record holding      *)
(* _persisted_model_params has the same all_total and graded_total earned   *)
(* and possible, the same first_attempted, hence the same percent_graded    *)
(* and attempted; the record's visible blocks are the keys of               *)
(* problem_scores, one record per entry, in the same order.                 *)
C9_RoundTrip ==
    (HasGrade /\ grade.kind = "create") =>
        LET m == _persisted_model_params(grade, student)
            r == ReadSubsectionGrade(m)
        IN  /\ r.all_total.earned = grade.all_total.earned
            /\ r.all_total.possible = grade.all_total.possible
            /\ r.graded_total.earned = grade.graded_total.earned
            /\ r.graded_total.possible = grade.graded_total.possible
            /\ r.all_total.first_attempted = grade.all_total.first_attempted
            /\ percent_graded(r) = percent_graded(grade)
            /\ attempted(r) = attempted(grade)
            /\ Len(m.visible_blocks) = Len(grade.problem_scores)
            /\ \A i \in 1..Len(m.visible_blocks) :
                   m.visible_blocks[i].locator = grade.problem_scores[i][1]

\* the fresh grade was persisted as it is, and differs in every aggregate
C9_Witness ==
    /\ HasGrade
    /\ grade.kind = "create"
    /\ model # NoneObj
    /\ model = update_or_create_grade(NoneObj, _persisted_model_params(grade, student))
    /\ Len(grade.problem_scores) = 2
    /\ grade.all_total.first_attempted # None
    /\ grade.graded_total.earned = 1
    /\ grade.all_total.earned = 2
    /\ grade.graded_total.possible = 1
    /\ grade.all_total.possible = 2

-----------------------------------------------------------------------------
(* C4: a fresh grade is persisted conditionally.  update_or_create_model    *)
(* writes the record exactly when all_total.first_attempted is not None or  *)
(* score_deleted is true, and otherwise leaves the record alone;            *)
(* bulk_create_models creates records for exactly those entries of its list *)
(* that are not None and whose all_total.first_attempted is not None, in    *)
(* the order of the list.                                                   *)
RecordOf(m, g) ==
    /\ m # NoneObj
    /\ m.user_id = student.id
    /\ m.earned_all = g.all_total.earned
    /\ m.possible_all = g.all_total.possible
    /\ m.earned_graded = g.graded_total.earned
    /\ m.possible_graded = g.graded_total.possible
    /\ m.first_attempted = g.all_total.first_attempted
    /\ Len(m.visible_blocks) = Len(g.problem_scores)

Attempted(g) == g # NoneObj /\ g.all_total.first_attempted # None

C4_Bulk ==
    LET kept == SelectSeq(bulk_created.subsection_grades, Attempted)
    IN  /\ Len(bulk_created.created) = Len(kept)
        /\ \A i \in 1..Len(kept) : RecordOf(bulk_created.created[i], kept[i])

C4_Update ==
    \A score_deleted \in BOOLEAN :
        update_or_create_model(score_deleted) =>
            IF grade.all_total.first_attempted # None \/ score_deleted
            THEN RecordOf(model', grade)
            ELSE model' = model

C4_ConditionalPersist == [][C4_Bulk' /\ C4_Update]_vars

\* a bulk create given a never attempted grade and an attempted one, beside a record
\* written for a never attempted grade whose score was deleted
C4_Witness ==
    /\ Len(bulk_created.subsection_grades) = 2
    /\ bulk_created.subsection_grades[1] # NoneObj
    /\ ~Attempted(bulk_created.subsection_grades[1])
    /\ Attempted(bulk_created.subsection_grades[2])
    /\ Len(bulk_created.created) = 1
    /\ model # NoneObj
    /\ model.first_attempted = None

-----------------------------------------------------------------------------
(* C8: problem_scores is an ordered mapping with unique keys.  Checked at   *)
(* the step that computes it (the constructor of a fresh grade, the first   *)
(* read of the lazy attribute of a grade read from a record), against the   *)
(* structure and the score sources of that moment.                          *)

\* the score computed for block b, given its persisted record if any
Scored(b, persisted_block) ==
    /\ b \in Range(structure)
    /\ blocks[b].has_score
    /\ get_score(submissions_scores, csm_scores, persisted_block, b, blocks[b]) # NoneObj

UniqueKeys(od) == \A i, j \in 1..Len(od) : od[i][1] = od[j][1] => i = j

ComputesFresh == grade' # grade /\ grade'.kind = "create"

ComputesRead ==
    /\ HasGrade /\ grade.kind = "read" /\ grade.lazy_problem_scores = <<>>
    /\ grade'.kind = "read" /\ grade'.lazy_problem_scores # <<>>

PersistedBlock(m, b) ==
    IF \E i \in 1..Len(m.visible_blocks) : m.visible_blocks[i].locator = b
    THEN LET i == CHOOSE i \in 1..Len(m.visible_blocks) : m.visible_blocks[i].locator = b
         IN  m.visible_blocks[i]
    ELSE NoneObj

ScoredFresh(b) == Scored(b, NoneObj)

ScoredPersisted(block) == Scored(block.locator, block)

FreshKeysInPostOrder ==
    ComputesFresh =>
        /\ UniqueKeys(grade'.problem_scores)
        /\ OD_Keys(grade'.problem_scores) = SelectSeq(structure, ScoredFresh)

ReadKeysInPersistedOrder ==
    ComputesRead =>
        LET kept == SelectSeq(grade.model.visible_blocks, ScoredPersisted)
        IN  /\ UniqueKeys(grade'.lazy_problem_scores[1])
            /\ OD_Keys(grade'.lazy_problem_scores[1]) =
                   [i \in 1..Len(kept) |-> kept[i].locator]

(* C8 as claimed: problem_scores contains a block exactly when the block is *)
(* in the current course structure, has has_score set and its computed      *)
(* score is not None; the keys of a fresh grade are in post-order, those of *)
(* a grade read from a record in the order of the persisted visible blocks, *)
(* persisted blocks missing from the structure being skipped.               *)
C8_Original ==
    [][ /\ FreshKeysInPostOrder
        /\ ReadKeysInPersistedOrder
        /\ ComputesRead =>
               \A b \in Blocks :
                   OD_Has(grade'.lazy_problem_scores[1], b)
                       <=> Scored(b, PersistedBlock(grade.model, b)) ]_vars

(* C8 as amended: the problem_scores of a fresh grade contain a block       *)
(* exactly when it is in the course structure, has has_score set and its    *)
(* computed score is not None, in post-order; the problem_scores of a grade *)
(* read from a persisted record contain a block exactly when it is among    *)
(* the persisted visible blocks and, in the current structure, is present,  *)
(* has has_score set and has a computed score that is not None, in the      *)
(* order of the persisted visible blocks; a persisted block missing from    *)
(* the structure is skipped and the others stay.  Keys are unique.          *)
C8_ProblemScoresKeys ==
    [][ /\ FreshKeysInPostOrder
        /\ ReadKeysInPersistedOrder
        /\ ComputesRead =>
               \A b \in Blocks :
                   OD_Has(grade'.lazy_problem_scores[1], b)
                       <=> /\ PersistedBlock(grade.model, b) # NoneObj
                           /\ Scored(b, PersistedBlock(grade.model, b)) ]_vars

\* a grade read from a record of two blocks, one of which has left the structure
C8_Witness ==
    /\ HasGrade
    /\ grade.kind = "read"
    /\ grade.lazy_problem_scores # <<>>
    /\ Len(grade.model.visible_blocks) = 2
    /\ OD_Keys(grade.lazy_problem_scores[1]) = <<"p2">>
    /\ "p1" \notin Range(structure)

-----------------------------------------------------------------------------
(* C10: the all_total and graded_total of a grade read from a persisted     *)
(* record are the persisted earned and possible values, in every state of   *)
(* the course structure and the score sources; the first read of the lazy   *)
(* problem_scores leaves all_total, graded_total, percent_graded and        *)
(* override as they were.                                                   *)
TotalsArePersisted(g) ==
    /\ g.all_total.earned = g.model.earned_all
    /\ g.all_total.possible = g.model.possible_all
    /\ g.graded_total.earned = g.model.earned_graded
    /\ g.graded_total.possible = g.model.possible_graded
    /\ g.override = g.model.override

C10_ReadTotalsFixed ==
    [][ /\ (grade' # NoneObj /\ grade'.kind = "read") => TotalsArePersisted(grade')
        /\ ComputesRead =>
               /\ grade'.model = grade.model
               /\ grade'.all_total = grade.all_total
               /\ grade'.graded_total = grade.graded_total
               /\ grade'.override = grade.override
               /\ NonZeroSubsectionGrade_percent_graded(grade')
                      = NonZeroSubsectionGrade_percent_graded(grade) ]_vars

\* a read grade whose problem_scores, read after the scores changed, no longer add up
\* to its totals
C10_Witness ==
    /\ HasGrade
    /\ grade.kind = "read"
    /\ grade.lazy_problem_scores # <<>>
    /\ SumEarned(OD_Values(grade.lazy_problem_scores[1])) # grade.all_total.earned
    /\ Len(grade.lazy_problem_scores[1]) < Len(grade.model.visible_blocks)

-----------------------------------------------------------------------------
(* C2: handling course_published reads the cached snapshot before           *)
(* rebuilding it.  It sends COURSE_START_DATE_CHANGED exactly when a        *)
(* snapshot existed before the rebuild and its start differs from the       *)
(* rebuilt one's, and COURSE_PACING_CHANGED exactly when a snapshot existed *)
(* and its self_paced differs; each signal carries the previous value and   *)
(* the rebuilt snapshot.  A publish with no prior snapshot sends neither.   *)
Published(c) == handled' = [op |-> "course_published", course_key |-> c]

SignalsNamed(sent, name) == SelectSeq(sent, LAMBDA e : e.signal = name)

C2_PublishSignals ==
    [][ \A c \in Courses : Published(c) =>
          LET existed == c \in DOMAIN overviews
              rebuilt == overviews'[c]
              dates == SignalsNamed(emitted', "COURSE_START_DATE_CHANGED")
              pacings == SignalsNamed(emitted', "COURSE_PACING_CHANGED")
          IN  /\ rebuilt.start = modulestore[c].start
              /\ rebuilt.self_paced = modulestore[c].self_paced
              /\ Len(dates) + Len(pacings) = Len(emitted')
              /\ Len(dates) = IF existed /\ overviews[c].start # rebuilt.start THEN 1 ELSE 0
              /\ Len(pacings) =
                     IF existed /\ overviews[c].self_paced # rebuilt.self_paced THEN 1 ELSE 0
              /\ \A i \in 1..Len(dates) :
                     /\ dates[i].previous_start_date = overviews[c].start
                     /\ dates[i].updated_course_overview = rebuilt
              /\ \A i \in 1..Len(pacings) :
                     /\ pacings[i].previous_self_paced = overviews[c].self_paced
                     /\ pacings[i].updated_course_overview = rebuilt
              /\ ~existed => emitted' = <<>> ]_vars

\* a publish of an edited course sent both signals, with the values of the snapshot
\* it replaced
C2_Witness ==
    /\ handled = [op |-> "course_published", course_key |-> "c1"]
    /\ Len(emitted) = 2
    /\ emitted[1].signal = "COURSE_START_DATE_CHANGED"
    /\ emitted[1].previous_start_date # overviews["c1"].start
    /\ emitted[2].signal = "COURSE_PACING_CHANGED"
    /\ emitted[2].previous_self_paced # overviews["c1"].self_paced

-----------------------------------------------------------------------------
(* C3: handling course_deleted for a course key leaves no snapshot for the  *)
(* key, leaves the snapshot of every other key as it was, takes the course  *)
(* out of the course-about index, and sends neither signal.                 *)
Deleted(c) == handled' = [op |-> "course_deleted", course_key |-> c]

C3_DeleteInvalidates ==
    [][ \A c \in Courses : Deleted(c) =>
          /\ c \notin DOMAIN overviews'
          /\ \A d \in Courses \ {c} :
                 /\ d \in DOMAIN overviews' <=> d \in DOMAIN overviews
                 /\ d \in DOMAIN overviews => overviews'[d] = overviews[d]
          /\ c \notin about_index'
          /\ SignalsNamed(emitted', "COURSE_START_DATE_CHANGED") = <<>>
          /\ SignalsNamed(emitted', "COURSE_PACING_CHANGED") = <<>> ]_vars

\* a course was deleted while another one keeps its snapshot and its index entry
C3_Witness ==
    /\ handled = [op |-> "course_deleted", course_key |-> "c1"]
    /\ "c1" \notin DOMAIN overviews
    /\ "c1" \notin about_index
    /\ "c2" \in DOMAIN overviews
    /\ "c2" \in about_index
    /\ emitted = <<>>

====
